---------------------------- MODULE Spec2Model ----------------------------
(***************************************************************************)
(* Model of src/main.py: the YouTube downloader API.                       *)
(*                                                                         *)
(* State: the wall clock, the two process-wide dicts (video_cache,         *)
(* last_request_time), the request being served with the locals of its     *)
(* worker function, and its response.  Time is counted in seconds.         *)
(* Python dicts are functions whose DOMAIN is the set of keys present;     *)
(* Python None is the string "None".  Of the engine's info dict the keys   *)
(* id, title, duration, url and ext are modelled; the remaining keys the   *)
(* handlers copy (description, thumbnail, filesize, ...) are read with     *)
(* .get() exactly like duration and are left out.                          *)
(*                                                                         *)
(* Requests are served one at a time: an endpoint call runs from the       *)
(* decorator to its first await in one step (no await in between in the    *)
(* source), then one step per upstream engine call.  Spec is the service   *)
(* with one client; SpecRetry follows the first request of a process and   *)
(* logs every engine call; SpecLimiter has two clients; SpecPlaylist       *)
(* serves /playlist/download; SpecQuality calls the download endpoints     *)
(* with any quality; SpecProbe serves /video/status and /video/fallback;   *)
(* SpecRace lets the cache lookup of a second request interleave with the  *)
(* worker thread of the first; SpecShared asks for one video under both    *)
(* spellings of its URL, through both endpoints; SpecBatch calls          *)
(* /playlist/download repeatedly.                                          *)
(***************************************************************************)
EXTENDS Integers, Sequences, FiniteSets, TLC

VARIABLES
    now,                \* time.time()
    video_cache,        \* main.py:44
    last_request_time,  \* main.py:45
    accepted,           \* history: per client, the time of its last admitted call
    origin,             \* history: body of the /video/info response whose extraction stored video_cache[key]
    evicted,            \* history: the request's cache lookup removed an expired entry
    req,                \* the endpoint call being served (its arguments, its time)
    pc,                 \* where the request is
    attempts,           \* get_download_info_enhanced: attempts
    calls,              \* number of upstream engine calls the request has made
    outs,               \* log: outcome of each upstream engine call of the request, in order
    clients,            \* log: player_client of each upstream engine call of the request, in order
    resp,               \* the response of the request
    pl,                 \* /playlist/download: the playlist being processed
    lookup              \* get_cached_video_info of a second request, called while the first awaits its worker

vars == <<now, video_cache, last_request_time, accepted, origin, evicted,
          req, pc, attempts, calls, outs, clients, resp, pl, lookup>>

-----------------------------------------------------------------------------
(* Bounds of the model *)

\* seconds the clock may advance in one-second steps, before and after its long step
MaxDrift == 3
\* upstream engine calls one request may make before the model stops following it
MaxCalls == 4
\* members of a playlist
MaxMembers == 3

-----------------------------------------------------------------------------
(* Program constants *)

INFO_CALLS_PER_MINUTE == 30
DOWNLOAD_CALLS_PER_MINUTE == 20
EXPIRY_MINUTES == 30
max_attempts_more == 3 + 1
max_attempts_fewer == 3 - 1
max_attempts == 3
RETRY_SLEEP == 1

QUALITY_OPTIONS_and_ultra == {"highest", "high", "medium", "low", "audio_only", "ultra"}
QUALITY_OPTIONS == {"highest", "high", "medium", "low", "audio_only"}

CLIENTS == <<"android", "ios", "web", "mweb">>

-----------------------------------------------------------------------------
(* Python values *)

None == "None"

EmptyDict == [k \in {} |-> None]

Get(d, k, default) == IF k \in DOMAIN d THEN d[k] ELSE default

Put(d, k, v) == [x \in DOMAIN d \cup {k} |-> IF x = k THEN v ELSE d[x]]

Del(d, k) == [x \in DOMAIN d \ {k} |-> d[x]]

\* bool(x) of a str-or-None value
Truthy(x) == x \notin {None, ""}

-----------------------------------------------------------------------------
(* Inputs *)

VIDEO == "dQw4w9WgXcQ"

Member(i) == "member" \o ToString(i)

CALLER == "10.0.0.1"
OTHER_CALLER == "10.0.0.2"

\* A URL: its spelling and the 11-character id it carries.
ValidForms == {"watch", "youtu.be"}
BadUrl == [form |-> "other", id |-> "none"]
Urls == [form : ValidForms, id : {VIDEO}] \cup {BadUrl}

validate_youtube_url(url) == url.form \in ValidForms

\* no normalisation
normalize_youtube_url_identity(url) == url

normalize_youtube_url(url) ==
    IF url.form = "youtu.be" THEN [form |-> "watch", id |-> url.id] ELSE url

\* wall-clock values the model visits
LongStep == EXPIRY_MINUTES * 60 - 1
Times == (0..MaxDrift) \cup {LongStep + k : k \in 0..MaxDrift}

-----------------------------------------------------------------------------
(* The extraction engine: ydl.extract_info(url, download=False).  It returns *)
(* an info dict or None, or raises DownloadError(message) or another        *)
(* exception.  A message is modelled by the set of phrases the handlers     *)
(* search it for.                                                           *)

SIGN_IN == "Sign in to confirm you're not a bot"
PRIVATE == "Private video"
UNAVAILABLE == "Video unavailable"

Messages == {{}, {SIGN_IN}, {PRIVATE}, {UNAVAILABLE}}

Infos(id) ==
    { [id |-> id, title |-> "Title", duration |-> "212", url |-> "https://cdn/stream", ext |-> "mp4"],
      [id |-> id, title |-> "Title", duration |-> "212", ext |-> "mp4"] }

Returned(info) == [kind |-> "info", info |-> info, msg |-> {}]
ReturnedNone == [kind |-> "none", info |-> EmptyDict, msg |-> {}]
DownloadError(msg) == [kind |-> "DownloadError", info |-> EmptyDict, msg |-> msg]
OtherException == [kind |-> "Exception", info |-> EmptyDict, msg |-> {}]

Outcomes(id) ==
    {Returned(i) : i \in Infos(id)} \cup {ReturnedNone, OtherException}
        \cup {DownloadError(m) : m \in Messages}

\* what the request's history keeps of an outcome
Seen(o) == [kind |-> o.kind, msg |-> o.msg]

-----------------------------------------------------------------------------
(* Cache store *)

get_cache_key(url, quality, format) == <<url, quality, format>>

cache_video_info_seconds(cache, url, info, t) ==
    Put(cache, get_cache_key(url, "", ""),
        [info |-> info, expiry |-> t + EXPIRY_MINUTES])

cache_video_info(cache, url, info, t) ==
    Put(cache, get_cache_key(url, "", ""),
        [info |-> info, expiry |-> t + EXPIRY_MINUTES * 60])

\* get_cached_video_info: the value it returns (found = FALSE: None) ...
get_cached_video_info(cache, url, t) ==
    LET cache_key == get_cache_key(url, "", "")
    IN  IF cache_key \in DOMAIN cache /\ t < cache[cache_key].expiry
        THEN [found |-> TRUE, info |-> cache[cache_key].info]
        ELSE [found |-> FALSE, info |-> EmptyDict]

\* ... and the cache it leaves
CacheAfterGet(cache, url, t) ==
    LET cache_key == get_cache_key(url, "", "")
    IN  IF cache_key \in DOMAIN cache /\ ~(t < cache[cache_key].expiry)
        THEN Del(cache, cache_key)
        ELSE cache

\* `if cached_info:` -- a dict is true when it is not empty
IsHit(cached) == cached.found /\ DOMAIN cached.info # {}

-----------------------------------------------------------------------------
(* Rate limiter *)

\* an interval one second short
MinInterval_short(calls_per_minute) == 60 \div calls_per_minute - 1

MinInterval(calls_per_minute) == 60 \div calls_per_minute

\* kwargs.get('client_ip', 'unknown')
ClientIp(kwargs) == Get(kwargs, "client_ip", "unknown")

\* the keyword arguments FastAPI calls an endpoint with: its declared parameters
HttpKwargs(url, force_extract, caller) ==
    [url |-> url, force_extract |-> force_extract, request |-> caller]

IsLimited(lrt, client_ip, calls_per_minute, t) ==
    /\ client_ip \in DOMAIN lrt
    /\ t - lrt[client_ip] < MinInterval(calls_per_minute)

WaitTime(lrt, client_ip, calls_per_minute, t) ==
    MinInterval(calls_per_minute) - (t - lrt[client_ip])

-----------------------------------------------------------------------------
(* Responses.  [status, body]: body is the JSON object of a 200 response,   *)
(* or the detail of an HTTPException (a str detail s is [detail |-> s]).    *)

HTTPException(status_code, detail) == [status |-> status_code, body |-> detail]

Ok(body) == [status |-> 200, body |-> body]

NoResponse == [status |-> 0, body |-> EmptyDict]

RateLimitExceeded(wait_time) ==
    HTTPException(429, [detail |-> "Rate limit exceeded", wait_time |-> wait_time])

InvalidUrl == HTTPException(400, [detail |-> "Invalid YouTube URL"])
InvalidQuality == HTTPException(400, [detail |-> "Invalid quality option"])
PrivateVideo == HTTPException(403, [detail |-> "This video is private and cannot be accessed."])
VideoUnavailable == HTTPException(404, [detail |-> "This video is unavailable or has been deleted."])

\* {"cached": True, **cached_info}
CachedInfoBody(info) ==
    [k \in DOMAIN info \cup {"cached"} |-> IF k \in DOMAIN info THEN info[k] ELSE TRUE]

\* video_info of get_video_info
VideoInfoBody(info, url) ==
    [cached |-> FALSE,
     id |-> Get(info, "id", "Unknown ID"),
     title |-> Get(info, "title", "Unknown Title"),
     duration |-> Get(info, "duration", None),
     webpage_url |-> Get(info, "webpage_url", url)]

\* the cache-hit response of get_video_download_links
CachedDownloadBody(info, quality, format) ==
    [cached |-> TRUE,
     title |-> Get(info, "title", "Unknown Title"),
     id |-> Get(info, "id", "Unknown ID"),
     duration |-> Get(info, "duration", None),
     download_url |-> Get(info, "url", None),
     quality |-> quality,
     format |-> format]

\* download_info of get_video_download_links
DownloadBody(info, quality, format) ==
    [title |-> Get(info, "title", "Unknown Title"),
     id |-> Get(info, "id", "Unknown ID"),
     duration |-> Get(info, "duration", None),
     ext |-> Get(info, "ext", None),
     quality |-> quality,
     requested_format |-> format,
     download_url |-> Get(info, "url", None),
     cached |-> FALSE,
     extraction_method |-> "enhanced"]

NoDownloadUrl ==
    HTTPException(503, [error |-> "No download URL available",
                        suggestion |-> "Try a different quality or format option"])

SignInRequiredDownload ==
    HTTPException(403, [error |-> "Sign-in verification required",
                        message |-> "This video requires sign-in verification and cannot be accessed",
                        fallback |-> "Try using /video/fallback endpoint"])

SignInRequiredInfo ==
    HTTPException(403, [error |-> "Sign-in required",
                        message |-> "This video requires sign-in verification and cannot be accessed through automated means"])

-----------------------------------------------------------------------------
(* Initial state: the process has just started *)

NoRequest ==
    [ep |-> "", via |-> "", caller |-> "", url |-> BadUrl, force_extract |-> FALSE,
     quality |-> "", format |-> "", method |-> "", time |-> 0]

NoPlaylist ==
    [caller |-> "", quality |-> "", format |-> "", limit |-> 0, videos |-> <<>>, links |-> <<>>]

NoLookup ==
    [at |-> "idle", calls_per_minute |-> 0,
     cached_data |-> [info |-> EmptyDict, expiry |-> 0], result |-> None]

Init ==
    /\ now = 0
    /\ video_cache = EmptyDict
    /\ last_request_time = EmptyDict
    /\ accepted = EmptyDict
    /\ origin = EmptyDict
    /\ evicted = FALSE
    /\ req = NoRequest
    /\ pc = "idle"
    /\ attempts = 0
    /\ calls = 0
    /\ outs = <<>>
    /\ clients = <<>>
    /\ resp = NoResponse
    /\ pl = NoPlaylist
    /\ lookup = NoLookup

-----------------------------------------------------------------------------
(* The clock *)

Advance(d) ==
    /\ now + d \in Times
    /\ now' = now + d
    /\ UNCHANGED <<video_cache, last_request_time, accepted, origin, evicted, lookup,
                   req, pc, attempts, calls, outs, clients, resp, pl>>

Tick == Advance(1)

Jump == Advance(LongStep)

-----------------------------------------------------------------------------
(* The log of a request's engine calls *)

\* ydl_opts['extractor_args']['youtube']['player_client'] of the next engine call
PlayerClient ==
    CASE pc = "extract" -> {"android", "web", "ios", "mweb"}
      [] pc = "alternative" -> {<<"android", "ios", "web">>[calls]}
      [] pc = "attempt" -> {CLIENTS[(attempts % Len(CLIENTS)) + 1]}
      [] pc = "status" -> {"android", "web"}
      [] pc = "fallback" -> CASE req.method = "embed" -> {}
                              [] req.method = "mobile" -> {"ios"}
                              [] OTHER -> {"android"}

Log(o) ==
    /\ outs' = Append(outs, Seen(o))
    /\ clients' = Append(clients, PlayerClient)

NoLog == UNCHANGED <<outs, clients>>

-----------------------------------------------------------------------------
(* How a call of get_video_download_links ends: an HTTP request is answered; *)
(* a playlist member's result or exception is appended to download_links    *)
(* (main.py:703-712) and the loop goes on or returns (main.py:714-718).     *)

\* str(e) of an HTTPException holds its status code and detail
PlaylistEntry(video, r) ==
    IF r.status = 200
    THEN [video_info |-> video, download_info |-> r.body]
    ELSE [video_info |-> video, error |-> r]

\* playlist_info["videos"][:limit]
Selected(p) ==
    SubSeq(p.videos, 1, IF p.limit < Len(p.videos) THEN p.limit ELSE Len(p.videos))

PlaylistBody(p, links) ==
    [playlist_info |-> [video_count |-> Len(p.videos), videos |-> p.videos],
     download_links |-> links,
     total_processed |-> Len(links)]

\* a member's exception ends the request
FinishAborting(r) ==
    IF req'.via = "playlist"
    THEN LET links == Append(pl.links, PlaylistEntry(Selected(pl)[Len(pl.links) + 1], r))
         IN  /\ pl' = [pl EXCEPT !.links = links]
             /\ IF r.status # 200
                THEN resp' = HTTPException(500, [detail |-> "Error getting playlist download links"])
                     /\ pc' = "done"
                ELSE IF Len(links) = Len(Selected(pl))
                THEN resp' = Ok(PlaylistBody(pl, links)) /\ pc' = "done"
                ELSE resp' = NoResponse /\ pc' = "member"
    ELSE /\ resp' = r
         /\ pc' = "done"
         /\ pl' = pl

Finish(r) ==
    IF req'.via = "playlist"
    THEN LET links == Append(pl.links, PlaylistEntry(Selected(pl)[Len(pl.links) + 1], r))
         IN  /\ pl' = [pl EXCEPT !.links = links]
             /\ IF Len(links) = Len(Selected(pl))
                THEN resp' = Ok(PlaylistBody(pl, links)) /\ pc' = "done"
                ELSE resp' = NoResponse /\ pc' = "member"
    ELSE /\ resp' = r
         /\ pc' = "done"
         /\ pl' = pl

\* the endpoint awaits its worker
Await(where) ==
    /\ pc' = where
    /\ resp' = NoResponse
    /\ pl' = pl

-----------------------------------------------------------------------------
(* rate_limit.wrapper (main.py:87-101) *)

Admit(client_ip, caller) ==
    /\ last_request_time' = Put(last_request_time, client_ip, now)
    /\ accepted' = Put(accepted, caller, now)

\* a denial that records the time of the denied call
DenyRecording(client_ip, calls_per_minute) ==
    /\ Finish(RateLimitExceeded(WaitTime(last_request_time, client_ip, calls_per_minute, now)))
    /\ last_request_time' = Put(last_request_time, client_ip, now)
    /\ UNCHANGED <<accepted, video_cache, origin>>

Deny(client_ip, calls_per_minute) ==
    /\ Finish(RateLimitExceeded(WaitTime(last_request_time, client_ip, calls_per_minute, now)))
    /\ UNCHANGED <<last_request_time, accepted, video_cache, origin>>

\* the entries of origin whose cache entry is still there
Forget(org, cache) == [k \in DOMAIN org \cap DOMAIN cache |-> org[k]]

NewRequest(ep, via, caller, url, quality, format, force_extract) ==
    [ep |-> ep, via |-> via, caller |-> caller, url |-> url,
     force_extract |-> force_extract, quality |-> quality, format |-> format,
     method |-> "", time |-> now]

Begin(r) ==
    /\ req' = r
    /\ attempts' = 0
    /\ calls' = 0
    /\ outs' = <<>>
    /\ clients' = <<>>
    /\ now' = now

-----------------------------------------------------------------------------
(* GET /video/info (main.py:315-376) up to its await *)

get_video_info(url, force_extract) ==
    IF ~validate_youtube_url(url)
    THEN /\ Finish(InvalidUrl)
         /\ UNCHANGED <<video_cache, origin>>
    ELSE LET u == normalize_youtube_url(url)
             cached_info == get_cached_video_info(video_cache, u, now)
         IN  IF ~force_extract
             THEN /\ video_cache' = CacheAfterGet(video_cache, u, now)
                  /\ origin' = Forget(origin, video_cache')
                  /\ IF IsHit(cached_info)
                     THEN Finish(Ok(CachedInfoBody(cached_info.info)))
                     ELSE Await("extract")
             ELSE /\ UNCHANGED <<video_cache, origin>>
                  /\ Await("extract")

VideoInfo(caller, url, force_extract) ==
    /\ pc \in {"idle", "done"}
    /\ Begin(NewRequest("info", "http", caller, url, "", "", force_extract))
    /\ LET client_ip == ClientIp(HttpKwargs(url, force_extract, caller))
       IN  IF IsLimited(last_request_time, client_ip, INFO_CALLS_PER_MINUTE, now)
           THEN Deny(client_ip, INFO_CALLS_PER_MINUTE)
           ELSE /\ Admit(client_ip, caller)
                /\ get_video_info(url, force_extract)
    /\ evicted' = (DOMAIN video_cache' # DOMAIN video_cache)
    /\ lookup' = lookup

-----------------------------------------------------------------------------
(* get_video_info after its await (main.py:343-376): the worker returned     *)
(* info, or raised HTTPException r.                                         *)

InfoReturned(info) ==
    LET u == normalize_youtube_url(req.url)
        video_info == VideoInfoBody(info, u)
    IN  /\ video_cache' = cache_video_info(video_cache, u, info, now)
        /\ origin' = Put(origin, get_cache_key(u, "", ""), video_info)
        /\ Finish(Ok(video_info))

\* a failed extraction that leaves an empty entry behind
InfoRaisedCaching(r) ==
    /\ Finish(r)
    /\ video_cache' = cache_video_info(video_cache, normalize_youtube_url(req.url), EmptyDict, now)
    /\ UNCHANGED origin

InfoRaised(r) ==
    /\ Finish(r)
    /\ UNCHANGED <<video_cache, origin>>

InternalErrorInfo ==
    HTTPException(500, [detail |-> "Internal server error while processing video."])

\* extract_video_info (main.py:166-185): its one engine call
ExtractVideoInfo(o) ==
    /\ pc = "extract"
    /\ calls' = calls + 1
    /\ UNCHANGED <<now, last_request_time, accepted, evicted, lookup, req, attempts>>
    /\ CASE o.kind = "info" -> InfoReturned(o.info)
         [] o.kind = "none" ->
                \* the HTTPException(400) raised inside the try block is caught by
                \* `except Exception` (main.py:183-185)
                InfoRaised(InternalErrorInfo)
         [] o.kind = "DownloadError" ->
                IF SIGN_IN \in o.msg
                THEN /\ pc' = "alternative"
                     /\ UNCHANGED <<video_cache, origin, resp, pl>>
                ELSE IF PRIVATE \in o.msg THEN InfoRaised(PrivateVideo)
                ELSE IF UNAVAILABLE \in o.msg THEN InfoRaised(VideoUnavailable)
                ELSE InfoRaised(HTTPException(400, [detail |-> "Error extracting video info"]))
         [] o.kind = "Exception" -> InfoRaised(InternalErrorInfo)

ALTERNATIVE_METHODS == 3

\* try_alternative_extraction (main.py:187-264): one of its engine calls
TryAlternativeExtraction(o) ==
    /\ pc = "alternative"
    /\ calls' = calls + 1
    /\ UNCHANGED <<now, last_request_time, accepted, evicted, lookup, req, attempts>>
    /\ IF o.kind = "info"
       THEN InfoReturned(o.info)
       ELSE IF calls < ALTERNATIVE_METHODS
       THEN UNCHANGED <<pc, video_cache, origin, resp, pl>>
       ELSE InfoRaised(SignInRequiredInfo)

-----------------------------------------------------------------------------
(* GET /video/download (main.py:463-622) up to its await *)

\* the endpoint, looking the cache up whatever force_extract is
get_video_download_links_cached(url, quality, format, force_extract) ==
    IF ~validate_youtube_url(url)
    THEN /\ Finish(InvalidUrl)
         /\ UNCHANGED <<video_cache, origin>>
    ELSE IF quality \notin QUALITY_OPTIONS
    THEN /\ Finish(InvalidQuality)
         /\ UNCHANGED <<video_cache, origin>>
    ELSE LET u == normalize_youtube_url(url)
             cached_info == get_cached_video_info(video_cache, u, now)
         IN  /\ video_cache' = CacheAfterGet(video_cache, u, now)
             /\ origin' = Forget(origin, video_cache')
             /\ IF IsHit(cached_info)
                THEN Finish(Ok(CachedDownloadBody(cached_info.info, quality, format)))
                ELSE Await("attempt")

get_video_download_links(url, quality, format, force_extract) ==
    IF ~validate_youtube_url(url)
    THEN /\ Finish(InvalidUrl)
         /\ UNCHANGED <<video_cache, origin>>
    ELSE IF quality \notin QUALITY_OPTIONS
    THEN /\ Finish(InvalidQuality)
         /\ UNCHANGED <<video_cache, origin>>
    ELSE LET u == normalize_youtube_url(url)
             cached_info == get_cached_video_info(video_cache, u, now)
         IN  IF ~force_extract
             THEN /\ video_cache' = CacheAfterGet(video_cache, u, now)
                  /\ origin' = Forget(origin, video_cache')
                  /\ IF IsHit(cached_info)
                     THEN Finish(Ok(CachedDownloadBody(cached_info.info, quality, format)))
                     ELSE Await("attempt")
             ELSE /\ UNCHANGED <<video_cache, origin>>
                  /\ Await("attempt")

\* the decorated endpoint, called with keyword arguments kwargs
RateLimitedDownload(kwargs, caller, url, quality, format, force_extract) ==
    LET client_ip == ClientIp(kwargs)
    IN  IF IsLimited(last_request_time, client_ip, DOWNLOAD_CALLS_PER_MINUTE, now)
        THEN Deny(client_ip, DOWNLOAD_CALLS_PER_MINUTE)
        ELSE /\ Admit(client_ip, caller)
             /\ get_video_download_links(url, quality, format, force_extract)

VideoDownload(caller, url, quality, format, force_extract) ==
    /\ pc \in {"idle", "done"}
    /\ Begin(NewRequest("download", "http", caller, url, quality, format, force_extract))
    /\ RateLimitedDownload(HttpKwargs(url, force_extract, caller),
                           caller, url, quality, format, force_extract)
    /\ evicted' = (DOMAIN video_cache' # DOMAIN video_cache)
    /\ lookup' = lookup

-----------------------------------------------------------------------------
(* get_download_info_enhanced (main.py:533-584): one iteration of its loop,  *)
(* and, when the worker returns or raises, the rest of the endpoint          *)
(* (main.py:586-622).                                                       *)

\* the HTTPException raised when the attempts are used up (main.py:556-573)
Classified(error_msg) ==
    IF SIGN_IN \in error_msg THEN SignInRequiredDownload
    ELSE IF PRIVATE \in error_msg THEN PrivateVideo
    ELSE IF UNAVAILABLE \in error_msg THEN VideoUnavailable
    ELSE HTTPException(400, [detail |-> "Error extracting video"])

InternalErrorDownload ==
    HTTPException(500, [detail |-> "Internal server error while processing download request."])

\* main.py:588-615
DownloadResponse(info, quality, format) ==
    LET download_info == DownloadBody(info, quality, format)
    IN  IF ~Truthy(download_info.download_url) THEN NoDownloadUrl ELSE Ok(download_info)

\* time.sleep(d)
Sleep(d) ==
    /\ now + d \in Times
    /\ now' = now + d

\* main.py:554-576 and 579-582: count the attempt; raise, or sleep and go round again
Failed(raised) ==
    /\ attempts' = attempts + 1
    /\ UNCHANGED <<video_cache, origin>>
    /\ IF attempts' >= max_attempts
       THEN Finish(raised) /\ now' = now
       ELSE Sleep(RETRY_SLEEP) /\ UNCHANGED <<pc, resp, pl>>

DownloadAttempt(o) ==
    /\ pc = "attempt"
    /\ attempts < max_attempts
    /\ calls < MaxCalls
    /\ calls' = calls + 1
    /\ UNCHANGED <<last_request_time, accepted, evicted, lookup, req>>
    /\ CASE o.kind = "info" ->
                LET u == normalize_youtube_url(req.url)
                IN  /\ video_cache' = cache_video_info(video_cache, u, o.info, now)
                    /\ origin' = Forget(origin, Del(video_cache, get_cache_key(u, "", "")))
                    /\ Finish(DownloadResponse(o.info, req.quality, req.format))
                    /\ UNCHANGED <<now, attempts>>
         [] o.kind = "none" ->
                UNCHANGED <<now, attempts, pc, video_cache, origin, resp, pl>>
         [] o.kind = "DownloadError" -> Failed(Classified(o.msg))
         [] o.kind = "Exception" -> Failed(InternalErrorDownload)

-----------------------------------------------------------------------------
(* GET /playlist/download (main.py:677-722) *)

PlaylistUrl == [form |-> "playlist", id |-> "PL"]

\* "playlist" in url.lower()
is_playlist_url(url) == url.form = "playlist"

\* an entry of the flat listing; None is the empty dict (both fail `if entry:`)
Entry(i) == [id |-> Member(i), title |-> "Video " \o ToString(i)]

Listings ==
    UNION {[1..n -> {EmptyDict}] \cup {[i \in 1..n |-> IF i = skip THEN EmptyDict ELSE Entry(i)] :
                                         skip \in 0..n} : n \in 0..MaxMembers}

\* get_playlist_info (main.py:661-669): playlist_info["videos"]
RECURSIVE PlaylistVideos(_)
PlaylistVideos(entries) ==
    IF entries = <<>> THEN <<>>
    ELSE LET rest == PlaylistVideos(SubSeq(entries, 1, Len(entries) - 1))
             entry == entries[Len(entries)]
         IN  IF DOMAIN entry # {}
             THEN Append(rest, [id |-> Get(entry, "id", None),
                                title |-> Get(entry, "title", None),
                                url |-> Get(entry, "url", None),
                                duration |-> Get(entry, "duration", None),
                                uploader |-> Get(entry, "uploader", None)])
             ELSE rest

ListingReturned(entries) == [kind |-> "info", entries |-> entries]
ListingFailed == [kind |-> "Exception", entries |-> <<>>]

\* the endpoint up to its first member: the checks, and get_playlist_info with
\* its one engine call
PlaylistDownload(caller, url, quality, format, limit, listing) ==
    /\ pc \in {"idle", "done"}
    /\ req' = NewRequest("playlist", "http", caller, url, quality, format, FALSE)
    /\ calls' = IF is_playlist_url(url) /\ quality \in QUALITY_OPTIONS THEN 1 ELSE 0
    /\ attempts' = 0
    /\ outs' = <<>>
    /\ clients' = <<>>
    /\ UNCHANGED <<now, video_cache, last_request_time, accepted, origin, evicted, lookup>>
    /\ IF ~is_playlist_url(url)
       THEN /\ resp' = HTTPException(400, [detail |-> "Invalid playlist URL"])
            /\ pc' = "done"
            /\ pl' = NoPlaylist
       ELSE IF quality \notin QUALITY_OPTIONS
       THEN /\ resp' = InvalidQuality
            /\ pc' = "done"
            /\ pl' = NoPlaylist
       ELSE IF listing.kind # "info"
       THEN \* info is None or extract_info raised: main.py:673-675, then 720-722
            /\ resp' = HTTPException(500, [detail |-> "Error getting playlist download links"])
            /\ pc' = "done"
            /\ pl' = NoPlaylist
       ELSE /\ pl' = [caller |-> caller, quality |-> quality, format |-> format, limit |-> limit,
                      videos |-> PlaylistVideos(listing.entries), links |-> <<>>]
            /\ IF Selected(pl') = <<>>
               THEN resp' = Ok(PlaylistBody(pl', <<>>)) /\ pc' = "done"
               ELSE resp' = NoResponse /\ pc' = "member"

\* the next member, called with force_extract = False
PlaylistMemberUnforced ==
    /\ pc = "member"
    /\ LET video == Selected(pl)[Len(pl.links) + 1]
           video_url == [form |-> "watch", id |-> video.id]
       IN  /\ Begin(NewRequest("download", "playlist", pl.caller, video_url,
                               pl.quality, pl.format, FALSE))
           /\ RateLimitedDownload(EmptyDict, pl.caller, video_url, pl.quality, pl.format, FALSE)
    /\ evicted' = (DOMAIN video_cache' # DOMAIN video_cache)
    /\ lookup' = lookup

\* main.py:701-702: the next member, through the decorated endpoint, called with
\* positional arguments; force_extract is its default, the Query(False) object,
\* which is true
PlaylistMember ==
    /\ pc = "member"
    /\ LET video == Selected(pl)[Len(pl.links) + 1]
           video_url == [form |-> "watch", id |-> video.id]
       IN  /\ Begin(NewRequest("download", "playlist", pl.caller, video_url,
                               pl.quality, pl.format, TRUE))
           /\ RateLimitedDownload(EmptyDict, pl.caller, video_url, pl.quality, pl.format, TRUE)
    /\ evicted' = (DOMAIN video_cache' # DOMAIN video_cache)
    /\ lookup' = lookup

-----------------------------------------------------------------------------
(* GET /video/status (main.py:378-461) *)

StatusBody(accessible, status, message) ==
    [accessible |-> accessible, status |-> status, message |-> message]

\* the dict check_status returns for an info
AvailableBody(info) ==
    [accessible |-> TRUE, status |-> "available", message |-> "Video is accessible",
     title |-> Get(info, "title", "Unknown Title"),
     uploader |-> Get(info, "uploader", None),
     duration |-> Get(info, "duration", None)]

\* check_status without the classification of the DownloadError message
StatusVerdictUnclassified(o) ==
    CASE o.kind = "info" -> AvailableBody(o.info)
      [] o.kind = "none" -> StatusBody(FALSE, "unavailable", "Video is not accessible")
      [] OTHER -> StatusBody(FALSE, "error", "Error accessing video")

\* check_status (main.py:407-447), and main.py:452-461 for what it lets through
StatusVerdict(o) ==
    CASE o.kind = "info" -> AvailableBody(o.info)
      [] o.kind = "none" -> StatusBody(FALSE, "unavailable", "Video is not accessible")
      [] o.kind = "DownloadError" ->
             IF SIGN_IN \in o.msg
             THEN StatusBody(FALSE, "restricted", "Video requires sign-in verification")
             ELSE IF PRIVATE \in o.msg
             THEN StatusBody(FALSE, "private", "Video is private")
             ELSE IF UNAVAILABLE \in o.msg
             THEN StatusBody(FALSE, "unavailable", "Video is unavailable or deleted")
             ELSE StatusBody(FALSE, "error", "Error accessing video")
      [] o.kind = "Exception" ->
             StatusBody(FALSE, "error", "Internal server error while checking video status")

\* the endpoint up to its await
VideoStatus(caller, url) ==
    /\ pc \in {"idle", "done"}
    /\ Begin(NewRequest("status", "http", caller, url, "", "", FALSE))
    /\ UNCHANGED <<video_cache, last_request_time, accepted, origin, evicted, lookup>>
    /\ IF ~validate_youtube_url(url) THEN Finish(InvalidUrl) ELSE Await("status")

\* check_status with its one engine call, and the return of the endpoint
StatusCheck(o) ==
    /\ pc = "status"
    /\ calls' = calls + 1
    /\ UNCHANGED <<now, video_cache, last_request_time, accepted, origin, evicted, lookup, req, attempts>>
    /\ Finish(Ok(StatusVerdict(o)))

-----------------------------------------------------------------------------
(* GET /video/fallback (main.py:741-878) *)

Methods == {"basic", "embed", "mobile", "other"}

\* the strategy a method value selects (main.py:754-765)
Strategy(method) == IF method \in {"embed", "mobile"} THEN method ELSE "basic"

\* str(e) of what the try block raised; for a None result info.get raises
\* AttributeError
ErrorText(o) ==
    CASE o.kind = "none" -> "'NoneType' object has no attribute 'get'"
      [] o.kind = "DownloadError" -> "ERROR: download error"
      [] OTHER -> "exception"

\* a strategy that lets the AttributeError of a None result through
FallbackVerdictRaising(strategy, o) ==
    IF o.kind = "info"
    THEN Ok([method |-> strategy, available |-> TRUE, id |-> Get(o.info, "id", "Unknown ID")])
    ELSE IF o.kind = "none"
    THEN HTTPException(500, [detail |-> "Internal server error"])
    ELSE Ok([method |-> strategy, available |-> FALSE, error |-> ErrorText(o)])

\* what try_embed_extraction, try_mobile_extraction and try_basic_extraction return
FallbackVerdict(strategy, o) ==
    IF o.kind = "info"
    THEN IF strategy = "embed"
         THEN Ok([method |-> strategy,
                  title |-> Get(o.info, "title", "Unknown Title"),
                  id |-> Get(o.info, "id", "Unknown ID"),
                  duration |-> Get(o.info, "duration", None),
                  available |-> TRUE])
         ELSE Ok([method |-> strategy,
                  title |-> Get(o.info, "title", "Unknown Title"),
                  id |-> Get(o.info, "id", "Unknown ID"),
                  duration |-> Get(o.info, "duration", None),
                  download_url |-> Get(o.info, "url", None),
                  available |-> TRUE])
    ELSE Ok([method |-> strategy, available |-> FALSE, error |-> ErrorText(o)])

\* the endpoint up to the await of its strategy
VideoFallback(caller, url, method) ==
    /\ pc \in {"idle", "done"}
    /\ Begin([NewRequest("fallback", "http", caller, url, "", "", FALSE) EXCEPT !.method = method])
    /\ UNCHANGED <<video_cache, last_request_time, accepted, origin, evicted, lookup>>
    /\ IF ~validate_youtube_url(url) THEN Finish(InvalidUrl) ELSE Await("fallback")

\* the strategy's one engine call, and its return
FallbackExtraction(o) ==
    /\ pc = "fallback"
    /\ calls' = calls + 1
    /\ UNCHANGED <<now, video_cache, last_request_time, accepted, origin, evicted, lookup, req, attempts>>
    /\ Finish(FallbackVerdict(Strategy(req.method), o))

-----------------------------------------------------------------------------
(* A second request for the same video, arriving while the first awaits its  *)
(* worker: the dispatcher thread runs its wrapper and then                   *)
(* get_cached_video_info (main.py:119-129) statement by statement, and the   *)
(* worker thread of the first request may run in between.  What the second   *)
(* request does after the lookup is left out.                                *)

LookupKey == get_cache_key(normalize_youtube_url(req.url), "", "")

LookupIdle == lookup.at \in {"idle", "done"}

Return(result) == lookup' = [lookup EXCEPT !.at = "done", !.result = result]

SecondRequest(calls_per_minute) ==
    /\ pc \in {"extract", "alternative", "attempt"}
    /\ LookupIdle
    /\ IF IsLimited(last_request_time, "unknown", calls_per_minute, now)
       THEN /\ lookup' = [NoLookup EXCEPT !.at = "done", !.result = "429",
                                          !.calls_per_minute = calls_per_minute]
            /\ UNCHANGED <<last_request_time, accepted>>
       ELSE /\ lookup' = [NoLookup EXCEPT !.at = "check",
                                          !.calls_per_minute = calls_per_minute]
            /\ Admit("unknown", OTHER_CALLER)
    /\ UNCHANGED <<now, video_cache, origin, evicted, req, pc, attempts, calls, outs, clients,
                   resp, pl>>

\* main.py:122: if cache_key in video_cache
LookupCheck ==
    /\ lookup.at = "check"
    /\ IF LookupKey \in DOMAIN video_cache
       THEN lookup' = [lookup EXCEPT !.at = "read"]
       ELSE Return(None)
    /\ UNCHANGED <<now, video_cache, last_request_time, accepted, origin, evicted, req, pc,
                   attempts, calls, outs, clients, resp, pl>>

\* main.py:123: cached_data = video_cache[cache_key]
LookupRead ==
    /\ lookup.at = "read"
    /\ IF LookupKey \in DOMAIN video_cache
       THEN lookup' = [lookup EXCEPT !.at = "compare", !.cached_data = video_cache[LookupKey]]
       ELSE Return("KeyError")
    /\ UNCHANGED <<now, video_cache, last_request_time, accepted, origin, evicted, req, pc,
                   attempts, calls, outs, clients, resp, pl>>

\* main.py:124-125: if time.time() < cached_data['expiry']: return cached_data['info']
LookupCompare ==
    /\ lookup.at = "compare"
    /\ IF now < lookup.cached_data.expiry
       THEN Return("info")
       ELSE lookup' = [lookup EXCEPT !.at = "delete"]
    /\ UNCHANGED <<now, video_cache, last_request_time, accepted, origin, evicted, req, pc,
                   attempts, calls, outs, clients, resp, pl>>

\* main.py:128-129: del video_cache[cache_key]; return None
LookupDelete ==
    /\ lookup.at = "delete"
    /\ IF LookupKey \in DOMAIN video_cache
       THEN /\ video_cache' = Del(video_cache, LookupKey)
            /\ Return(None)
       ELSE /\ video_cache' = video_cache
            /\ Return("KeyError")
    /\ origin' = Forget(origin, video_cache')
    /\ UNCHANGED <<now, last_request_time, accepted, evicted, req, pc,
                   attempts, calls, outs, clients, resp, pl>>

-----------------------------------------------------------------------------
(* The service with one client *)

Formats == {"mp4", "mp3"}
Qualities == {"high", "ultra"}

Next ==
    \/ Tick
    \/ Jump
    \/ \E u \in Urls, f \in BOOLEAN : VideoInfo(CALLER, u, f) 
    \/ \E o \in Outcomes(req.url.id) : ExtractVideoInfo(o) /\ NoLog
    \/ \E o \in Outcomes(req.url.id) : TryAlternativeExtraction(o) /\ NoLog
    \/ \E u \in Urls, q \in Qualities, fmt \in Formats, f \in BOOLEAN :
           VideoDownload(CALLER, u, q, fmt, f)
    \/ \E o \in Outcomes(req.url.id) : DownloadAttempt(o) /\ NoLog

Spec == Init /\ [][Next]_vars

-----------------------------------------------------------------------------
(* Claims about the cache, under Spec *)

CacheKeyOf(r) == get_cache_key(normalize_youtube_url(r.url), "", "")

\* the cache holds an entry for the request's video that has not expired at time t
Fresh(cache, r, t) ==
    /\ CacheKeyOf(r) \in DOMAIN cache
    /\ t < cache[CacheKeyOf(r)].expiry

\* a step in which an endpoint is called over HTTP
CallStep(ep) ==
    /\ pc \in {"idle", "done"}
    /\ now' = now
    /\ req'.via = "http"
    /\ req'.ep = ep

\* the fields of a response other than its cached flag
Metadata(body) == [k \in DOMAIN body \ {"cached"} |-> body[k]]

\* C4: a /video/info call without force_extract, made while the cache holds an
\* unexpired entry that a /video/info extraction stored for the same video, is
\* answered with cached = true and makes no engine call.
C4_CacheHitAnswered ==
    [][ (/\ CallStep("info")
         /\ validate_youtube_url(req'.url)
         /\ ~req'.force_extract
         /\ Fresh(video_cache, req', now)
         /\ CacheKeyOf(req') \in DOMAIN origin)
        => (/\ pc' = "done"
            /\ resp'.status = 200
            /\ resp'.body.cached
            /\ calls' = 0) ]_vars

\* C5: a /video/info response served from the cache has the same fields, with
\* the same values, as the response of the /video/info call whose extraction
\* stored the entry; only the cached flag differs.
C5_IdempotentHit ==
    (/\ req.ep = "info"
     /\ pc = "done"
     /\ resp.status = 200
     /\ resp.body.cached
     /\ CacheKeyOf(req) \in DOMAIN origin)
    => (/\ DOMAIN resp.body = DOMAIN origin[CacheKeyOf(req)]
        /\ Metadata(resp.body) = Metadata(origin[CacheKeyOf(req)]))

\* a step in which an admitted, valid call without force_extract looks the cache up
LookupStep ==
    /\ (CallStep("info") \/ CallStep("download"))
    /\ resp'.status \notin {429, 400}
    /\ ~req'.force_extract

\* C6: every entry is stored with expiry = time of the store + 30 minutes; a
\* lookup at time now returns the stored result iff an entry exists and
\* now < expiry, and leaves the cache as it is; otherwise it returns nothing,
\* removes the entry, and the request goes on to a fresh extraction, whose
\* result overwrites the entry.
C6_CacheExpiry ==
    [][ /\ \A k \in DOMAIN video_cache' :
              (k \notin DOMAIN video_cache \/ video_cache'[k] # video_cache[k])
                  => video_cache'[k].expiry = now + 30 * 60
        /\ LookupStep =>
              IF Fresh(video_cache, req', now)
              THEN /\ pc' = "done"
                   /\ resp'.status = 200
                   /\ resp'.body.cached
                   /\ resp'.body.id = video_cache[CacheKeyOf(req')].info.id
                   /\ video_cache' = video_cache
                   /\ ~evicted'
              ELSE /\ pc' \in {"extract", "attempt"}
                   /\ CacheKeyOf(req') \notin DOMAIN video_cache'
                   /\ evicted' = (CacheKeyOf(req') \in DOMAIN video_cache)
        /\ (pc \in {"extract", "alternative", "attempt"} /\ resp'.status = 200) =>
              /\ CacheKeyOf(req) \in DOMAIN video_cache'
              /\ video_cache'[CacheKeyOf(req)].expiry = now + 30 * 60
              /\ video_cache'[CacheKeyOf(req)].info.id = resp'.body.id ]_vars

\* an expired entry was removed by the request's lookup and the request's
\* extraction has stored a new one
C6_Witness ==
    /\ pc = "done"
    /\ evicted
    /\ resp.status = 200
    /\ ~resp.body.cached
    /\ CacheKeyOf(req) \in DOMAIN video_cache
    /\ video_cache[CacheKeyOf(req)].expiry = now + 30 * 60
    /\ now >= 30 * 60

\* C10: no 200 response of /video/download carries an empty download_url.
C10_NoEmptyDownloadUrl ==
    (req.ep = "download" /\ pc = "done" /\ resp.status = 200)
        => Truthy(resp.body.download_url)

\* C12: the response of a /video/download call with format = mp3 that extracted
\* successfully has ext = "mp3", whatever ext the engine reported.
C12_AudioExt ==
    (/\ pc = "done"
     /\ req.ep = "download"
     /\ req.format = "mp3"
     /\ resp.status = 200
     /\ ~resp.body.cached)
        => resp.body.ext = "mp3"

\* the quality names of the interface
QualityNames == {"highest", "high", "medium", "low", "audio_only"}

\* C15: a valid /video/info or /video/download call without force_extract, made
\* while the cache holds an unexpired entry for the video, is answered from the
\* cache whatever the time since the last accepted call, and leaves the rate
\* limiter's record as it is.
C15_CacheBeforeGate ==
    [][ \A ep \in {"info", "download"} :
          (/\ CallStep(ep)
           /\ validate_youtube_url(req'.url)
           /\ ep = "download" => req'.quality \in QualityNames
           /\ ~req'.force_extract
           /\ Fresh(video_cache, req', now))
          => (/\ pc' = "done"
              /\ resp'.status = 200
              /\ resp'.body.cached
              /\ last_request_time' = last_request_time) ]_vars

\* a step that stores an entry in the cache
StoreStep ==
    \E k \in DOMAIN video_cache' : k \notin DOMAIN video_cache \/ video_cache'[k] # video_cache[k]

\* a step in which a /video/info or /video/download request is answered
Ends ==
    /\ pc' = "done"
    /\ now' = now
    /\ req'.ep \in {"info", "download"}

\* ... with the result of a fresh extraction
FreshSuccess == Ends /\ resp'.status = 200 /\ ~resp'.body.cached

\* ... with a denial, or with the failure an upstream error caused
DeniedOrUpstreamFailure ==
    /\ Ends
    /\ resp'.status = 429 \/ (resp'.status \in {400, 403, 404, 500} /\ calls' >= 1)

\* after a fresh extraction the cache holds the result with expiry = now + 30 min
StoredOnSuccess ==
    FreshSuccess =>
        /\ CacheKeyOf(req') \in DOMAIN video_cache'
        /\ LET entry == video_cache'[CacheKeyOf(req')]
           IN  /\ entry.expiry = now + 30 * 60
               /\ entry.info.id = resp'.body.id
               /\ entry.info.title = resp'.body.title
               /\ req'.ep = "download" => entry.info.url = resp'.body.download_url

\* C20 as stated: a fresh successful extraction leaves its result in the cache
\* with expiry = now + 30 minutes; nothing is stored except by a request that
\* succeeds; a request that is denied, or fails on an upstream error, leaves the
\* cache as it was when the request arrived.
C20_OnlyOnSuccess ==
    [][ /\ StoredOnSuccess
        /\ StoreStep => FreshSuccess
        /\ DeniedOrUpstreamFailure => (video_cache' = video_cache /\ ~evicted') ]_vars

\* C20, amended: a fresh successful extraction leaves its result in the cache
\* with expiry = now + 30 minutes; an entry is stored only when the engine has
\* returned a result to the request, which is then answered 200 or, the result
\* having no stream URL, 503; a request that is denied, or fails on an upstream
\* error, stores nothing (its lookup may have removed an expired entry).
C20_OnlyOnResult ==
    [][ /\ StoredOnSuccess
        /\ StoreStep => (/\ Ends
                         /\ calls' >= 1
                         /\ FreshSuccess \/ (req'.ep = "download" /\ resp' = NoDownloadUrl))
        /\ DeniedOrUpstreamFailure => video_cache' = video_cache ]_vars

\* a /video/download request found an expired entry, removed it, and failed
\* on "private video" after its three calls: the cache is empty
C20_Witness ==
    /\ pc = "done"
    /\ req.ep = "download"
    /\ evicted
    /\ calls = 3
    /\ resp = PrivateVideo
    /\ video_cache = EmptyDict

\* C21: a valid /video/info or /video/download call with force_extract = true
\* that the rate limiter admits is not answered by the handler: it leaves the
\* cache as it is and goes to its worker; when it is answered it has made at
\* least one engine call, and when it is answered 200 the response has
\* cached = false and the cache holds the new result with expiry = now + 30 min.
C21_ForceRefresh ==
    [][ /\ \A ep \in {"info", "download"} :
              (/\ CallStep(ep)
               /\ req'.force_extract
               /\ validate_youtube_url(req'.url)
               /\ ep = "download" => req'.quality \in QualityNames
               /\ resp'.status # 429)
              => (/\ pc' = IF ep = "info" THEN "extract" ELSE "attempt"
                  /\ resp' = NoResponse
                  /\ calls' = 0
                  /\ video_cache' = video_cache)
        /\ (Ends /\ req'.force_extract /\ pc \notin {"idle", "done"})
              => (/\ calls' >= 1
                  /\ resp'.status = 200 =>
                        /\ ~resp'.body.cached
                        /\ video_cache'[CacheKeyOf(req')].expiry = now + 30 * 60
                        /\ video_cache'[CacheKeyOf(req')].info.id = resp'.body.id) ]_vars

\* a forced /video/download request, made while the cache holds an unexpired
\* entry for the video, has made an engine call and is in its retry loop
C21_Witness ==
    /\ pc = "attempt"
    /\ req.ep = "download"
    /\ req.force_extract
    /\ calls = 1
    /\ attempts = 1
    /\ Fresh(video_cache, req, now)
    /\ video_cache[CacheKeyOf(req)].expiry < req.time + 30 * 60

\* C26: a call of /video/info or /video/download that is denied with 429 is
\* answered in the step of the call, having made no engine call; the step leaves
\* video_cache as it was, expired entries included, and leaves
\* last_request_time as it was.
C26_DenialFrame ==
    [][ /\ \A ep \in {"info", "download"} :
              (CallStep(ep) /\ resp'.status = 429) =>
                  /\ pc' = "done"
                  /\ calls' = 0
                  /\ video_cache' = video_cache
                  /\ ~evicted'
                  /\ last_request_time' = last_request_time
        /\ (pc = "done" /\ resp.status = 429) => calls = 0 ]_vars

\* a call was denied while the cache holds an expired entry of its video
C26_Witness ==
    /\ pc = "done"
    /\ resp.status = 429
    /\ calls = 0
    /\ validate_youtube_url(req.url)
    /\ CacheKeyOf(req) \in DOMAIN video_cache
    /\ video_cache[CacheKeyOf(req)].expiry <= now
    /\ last_request_time["unknown"] < now

-----------------------------------------------------------------------------
(* /video/download and /playlist/download called with any quality; the      *)
(* playlists have no member that can be listed                              *)

NextQuality ==
    \/ Tick
    \/ Jump
    \/ \E u \in Urls, q \in Qualities : VideoDownload(CALLER, u, q, "mp4", FALSE)
    \/ \E o \in Outcomes(req.url.id) : DownloadAttempt(o) /\ NoLog
    \/ \E u \in {PlaylistUrl, BadUrl}, q \in Qualities,
          listing \in {ListingReturned(<<>>), ListingFailed} :
           PlaylistDownload(CALLER, u, q, "mp4", 1, listing)

SpecQuality == Init /\ [][NextQuality]_vars

\* a /video/download or /playlist/download call whose quality is not a quality name
BadQualityStep(ep) ==
    /\ CallStep(ep)
    /\ req'.quality \notin QualityNames

-----------------------------------------------------------------------------
(* The first request of a process, every engine call logged *)

InitRetry == Init

NextRetry ==
    \/ \E u \in Urls, f \in BOOLEAN : pc = "idle" /\ VideoInfo(CALLER, u, f)
    \/ \E o \in Outcomes(req.url.id) : ExtractVideoInfo(o) /\ Log(o)
    \/ \E o \in Outcomes(req.url.id) : TryAlternativeExtraction(o) /\ Log(o)
    \/ \E u \in Urls, q \in Qualities, fmt \in Formats, f \in BOOLEAN :
           pc = "idle" /\ VideoDownload(CALLER, u, q, fmt, f)
    \/ \E o \in Outcomes(req.url.id) : DownloadAttempt(o) /\ Log(o)

SpecRetry == InitRetry /\ [][NextRetry]_vars

-----------------------------------------------------------------------------
(* Claims about the retry loop of /video/download, under SpecRetry *)

Reported(i, phrase) == outs[i] = Seen(DownloadError({phrase}))

EveryCallReported(phrase) ==
    /\ outs # <<>>
    /\ \A i \in 1..Len(outs) : Reported(i, phrase)

\* C1: on /video/download, while every engine call of the request has reported
\* "sign-in required", the request has made at most 3 calls; it is answered
\* exactly when the third call has failed, with 403 and a detail that points to
\* /video/fallback.
C1_RotationBound ==
    (req.ep = "download" /\ EveryCallReported(SIGN_IN)) =>
        /\ calls = Len(outs)
        /\ calls <= 3
        /\ (calls < 3 => pc = "attempt")
        /\ (calls = 3 =>
                /\ pc = "done"
                /\ resp.status = 403
                /\ "fallback" \in DOMAIN resp.body
                /\ resp.body.fallback = "Try using /video/fallback endpoint")

C1_Witness ==
    /\ req.ep = "download"
    /\ EveryCallReported(SIGN_IN)
    /\ calls = 3
    /\ pc = "done"
    /\ resp = SignInRequiredDownload

\* C2: on /video/download, a request whose first engine call reported "private
\* video" (or "video unavailable") is answered at once, after exactly 1 call,
\* with PrivateVideo (403) or Unavailable (404).
C2_ShortCircuit ==
    \A phrase \in {PRIVATE, UNAVAILABLE} :
        (req.ep = "download" /\ outs # <<>> /\ Reported(1, phrase)) =>
            /\ pc = "done"
            /\ calls = 1
            /\ resp = Classified({phrase})

\* C3: a /video/download request makes at most 3 engine calls, whatever the
\* engine returns or raises.
C3_BoundedCalls ==
    req.ep = "download" => calls <= 3

\* C17: on /video/info, while every engine call of the request has reported
\* "sign-in required", the request has made at most 3 calls, those of the
\* alternative extraction included; it then fails with 403.
C17_InfoRotationBound ==
    (req.ep = "info" /\ EveryCallReported(SIGN_IN)) =>
        /\ calls = Len(outs)
        /\ calls <= 3
        /\ pc = "done" => resp.status = 403

\* C18: on /video/download the k-th engine call of a request is pinned to the
\* single client profile sequence[(k-1) mod 4] of [android, ios, web, mweb].
C18_DeterministicRotation ==
    req.ep = "download" =>
        \A k \in 1..Len(clients) :
            clients[k] = {<<"android", "ios", "web", "mweb">>[((k - 1) % 4) + 1]}

\* the failures the retry loop goes on after: sign-in required, an unclassified
\* download error, another exception
Retriable == {Seen(DownloadError({SIGN_IN})), Seen(DownloadError({})), Seen(OtherException)}

\* C19: on /video/download, while the engine calls of a request have all failed
\* with a retriable error and are fewer than 3, the request goes on to its next
\* call; if calls 1..k-1 (k <= 3) failed so and call k returned an info with a
\* stream URL, the request is answered 200 with that info after exactly k calls;
\* if 3 calls failed with an unclassified download error, it is answered 400
\* after exactly 3 calls.
C19_RetryUntilExhaustion ==
    (/\ req.ep = "download"
     /\ outs # <<>>
     /\ \A i \in 1..(Len(outs) - 1) : outs[i] \in Retriable) =>
        LET k == Len(outs)
            entry == video_cache[CacheKeyOf(req)]
        IN  /\ calls = k
            /\ k <= 3
            /\ (outs[k] \in Retriable /\ k < 3) => pc = "attempt"
            /\ (outs[k].kind = "info") =>
                  /\ pc = "done"
                  /\ CacheKeyOf(req) \in DOMAIN video_cache
                  /\ "url" \in DOMAIN entry.info =>
                        /\ resp.status = 200
                        /\ ~resp.body.cached
                        /\ resp.body.download_url = entry.info.url
                        /\ resp.body.id = entry.info.id
            /\ (\A i \in 1..k : outs[i] = Seen(DownloadError({}))) /\ k = 3 =>
                  /\ pc = "done"
                  /\ resp.status = 400

\* two calls failed, with sign-in required and with another exception, and the
\* third returned an info: the request was answered 200
C19_Witness ==
    /\ req.ep = "download"
    /\ Len(outs) = 3
    /\ outs[1] = Seen(DownloadError({SIGN_IN}))
    /\ outs[2] = Seen(OtherException)
    /\ outs[3].kind = "info"
    /\ clients = <<{"android"}, {"ios"}, {"web"}>>
    /\ pc = "done"
    /\ resp.status = 200

\* C24: a /video/info request whose one engine call returned None is answered
\* with 400, "Could not extract video information ...".
C24_EmptyResultIs400 ==
    (req.ep = "info" /\ pc = "done" /\ outs = <<Seen(ReturnedNone)>>) =>
        resp.status = 400

-----------------------------------------------------------------------------
(* The service with two clients, within one cache lifetime *)

WatchUrl == [form |-> "watch", id |-> VIDEO]

NextLimiter ==
    \/ Tick
    \/ \E c \in {CALLER, OTHER_CALLER} : VideoInfo(c, WatchUrl, FALSE)
    \/ \E o \in Outcomes(req.url.id) : ExtractVideoInfo(o) /\ NoLog
    \/ \E o \in Outcomes(req.url.id) : TryAlternativeExtraction(o) /\ NoLog
    \/ \E c \in {CALLER, OTHER_CALLER} : VideoDownload(c, WatchUrl, "high", "mp4", FALSE)
    \/ \E o \in Outcomes(req.url.id) : DownloadAttempt(o) /\ NoLog

SpecLimiter == Init /\ [][NextLimiter]_vars

-----------------------------------------------------------------------------
(* Claims about the rate limiter, under SpecLimiter *)

\* C7: a call at time t by a client whose last admitted call was at t0 is
\* denied (429) with retryAfter = minInterval - (t - t0) and leaves the recorded
\* times alone when t - t0 < minInterval; otherwise, and for a client with no
\* admitted call, it is admitted and t is recorded.  minInterval is 2 s for
\* /video/info and 3 s for /video/download.
C7_Threshold ==
    [][ \A ep \in {"info", "download"} :
          CallStep(ep) =>
            LET c == req'.caller
                minInterval == IF ep = "info" THEN 2 ELSE 3
            IN  IF c \in DOMAIN accepted /\ now - accepted[c] < minInterval
                THEN /\ resp'.status = 429
                     /\ resp'.body.wait_time = minInterval - (now - accepted[c])
                     /\ accepted' = accepted
                     /\ last_request_time' = last_request_time
                ELSE /\ resp'.status # 429
                     /\ accepted'[c] = now ]_vars

\* C8: a call is denied only on account of an admitted call of the same client:
\* a denied client has an admitted call of its own less than minInterval ago.
C8_PerClient ==
    (pc = "done" /\ resp.status = 429) =>
        /\ req.caller \in DOMAIN accepted
        /\ req.time - accepted[req.caller] <
               MinInterval(IF req.ep = "info" THEN INFO_CALLS_PER_MINUTE
                                              ELSE DOWNLOAD_CALLS_PER_MINUTE)

-----------------------------------------------------------------------------
(* The first /playlist/download request of a process *)

NextPlaylist ==
    \/ Tick
    \/ Jump
    \/ \E u \in {PlaylistUrl, BadUrl}, q \in Qualities, limit \in 1..MaxMembers,
          listing \in {ListingReturned(e) : e \in Listings} \cup {ListingFailed} :
           pc = "idle" /\ PlaylistDownload(CALLER, u, q, "mp4", limit, listing)
    \/ PlaylistMember
    \/ \E o \in Outcomes(req.url.id) : DownloadAttempt(o) /\ NoLog

SpecPlaylist == Init /\ [][NextPlaylist]_vars

-----------------------------------------------------------------------------
(* Claims about /playlist/download, under SpecPlaylist *)

\* the playlist's members have been resolved and are being, or have been, processed
Processing == pl.videos # <<>>

IsErrorEntry(e) == "error" \in DOMAIN e

\* C9: while and after the n <= limit resolved members of a playlist are
\* processed, download_links holds one entry per processed member, in playlist
\* order; each entry carries either the member's download info or an error;
\* the request is answered only when all n members have an entry, and then with
\* 200 and total_processed = n, whatever entries are errors.  (A member whose
\* worker never returns keeps the request unanswered: that is C3's subject.)
C9_PlaylistIsolation ==
    (Processing /\ Len(pl.videos) <= pl.limit) =>
        /\ Len(pl.links) <= Len(pl.videos)
        /\ \A i \in 1..Len(pl.links) :
              /\ pl.links[i].video_info = pl.videos[i]
              /\ IF IsErrorEntry(pl.links[i])
                 THEN /\ DOMAIN pl.links[i] = {"video_info", "error"}
                      /\ pl.links[i].error.status # 200
                 ELSE /\ DOMAIN pl.links[i] = {"video_info", "download_info"}
                      /\ pl.links[i].download_info.id = pl.videos[i].id
        /\ (pc = "done") = (Len(pl.links) = Len(pl.videos))
        /\ pc = "done" =>
              /\ resp.status = 200
              /\ resp.body.total_processed = Len(pl.videos)
              /\ resp.body.download_links = pl.links

\* a playlist of three members answered: the second member failed, the first
\* and the third did not
C9_Witness ==
    /\ pc = "done"
    /\ Len(pl.videos) = 3
    /\ resp.status = 200
    /\ resp.body.total_processed = 3
    /\ ~IsErrorEntry(resp.body.download_links[1])
    /\ IsErrorEntry(resp.body.download_links[2])
    /\ ~IsErrorEntry(resp.body.download_links[3])

-----------------------------------------------------------------------------
(* The endpoints that probe a video: /video/status and /video/fallback *)

NextProbe ==
    \/ Tick
    \/ \E u \in Urls : VideoStatus(CALLER, u)
    \/ \E o \in Outcomes(req.url.id) : StatusCheck(o) /\ Log(o)
    \/ \E u \in Urls, m \in Methods : VideoFallback(CALLER, u, m)
    \/ \E o \in Outcomes(req.url.id) : FallbackExtraction(o) /\ Log(o)

SpecProbe == Init /\ [][NextProbe]_vars

\* the request is answered
Answered(ep) == pc = "done" /\ req.ep = ep /\ req.via = "http"

\* C13: a /video/fallback request for a valid URL, whatever its method, is
\* answered 200 after exactly one engine call with a verdict that has the fields
\* method and available; available is true iff the engine returned an info;
\* when the engine returned None or raised, the verdict has available = false
\* and an error string.
C13_FallbackNeverThrows ==
    (Answered("fallback") /\ validate_youtube_url(req.url)) =>
        /\ resp.status = 200
        /\ calls = 1
        /\ Len(outs) = 1
        /\ {"method", "available"} \subseteq DOMAIN resp.body
        /\ resp.body.method = Strategy(req.method)
        /\ resp.body.available = (outs[1].kind = "info")
        /\ ~resp.body.available =>
              /\ DOMAIN resp.body = {"method", "available", "error"}
              /\ resp.body.error \in STRING
              /\ resp.body.error # ""

\* the mobile strategy got None from the engine and reported it
C13_Witness ==
    /\ Answered("fallback")
    /\ req.method = "mobile"
    /\ outs = <<Seen(ReturnedNone)>>
    /\ clients = <<{"ios"}>>
    /\ resp.status = 200
    /\ ~resp.body.available

\* C14: a /video/status request for a valid URL is answered 200 for every
\* engine outcome, with a status among available, unavailable, restricted,
\* private and error, and accessible = true iff status = available; the status is
\* available for an info, restricted for sign-in required, private for a
\* private video, unavailable for an unavailable video or a None result, and
\* error for any other failure.
C14_StatusNeverRaises ==
    (Answered("status") /\ validate_youtube_url(req.url)) =>
        /\ resp.status = 200
        /\ Len(outs) = 1
        /\ resp.body.status \in {"available", "unavailable", "restricted", "private", "error"}
        /\ resp.body.accessible = (resp.body.status = "available")
        /\ resp.body.status =
              (CASE outs[1].kind = "info" -> "available"
                 [] outs[1].kind = "none" -> "unavailable"
                 [] outs[1].kind = "DownloadError" /\ SIGN_IN \in outs[1].msg -> "restricted"
                 [] outs[1].kind = "DownloadError" /\ PRIVATE \in outs[1].msg -> "private"
                 [] outs[1].kind = "DownloadError" /\ UNAVAILABLE \in outs[1].msg -> "unavailable"
                 [] OTHER -> "error")

\* the engine raised an exception that check_status does not catch, and the
\* request was answered with status error
C14_Witness ==
    /\ Answered("status")
    /\ outs = <<Seen(OtherException)>>
    /\ resp.status = 200
    /\ resp.body.status = "error"
    /\ ~resp.body.accessible

-----------------------------------------------------------------------------
(* Two requests for one video: the first with its worker, the second's       *)
(* cache lookup.  The handlers and the continuations after an await run on   *)
(* the dispatcher thread, one at a time; the worker of /video/download       *)
(* (an engine call, then cache_video_info, main.py:545-550) runs on its own  *)
(* thread.                                                                   *)

NextRace ==
    \/ Tick
    \/ Jump
    \/ LookupIdle /\ VideoInfo(CALLER, WatchUrl, FALSE)
    \/ \E o \in Outcomes(req.url.id) : LookupIdle /\ ExtractVideoInfo(o) /\ NoLog
    \/ \E o \in Outcomes(req.url.id) : LookupIdle /\ TryAlternativeExtraction(o) /\ NoLog
    \/ \E f \in BOOLEAN : LookupIdle /\ VideoDownload(CALLER, WatchUrl, "high", "mp4", f)
    \/ \E o \in Outcomes(req.url.id) : DownloadAttempt(o) /\ NoLog
    \/ \E cpm \in {INFO_CALLS_PER_MINUTE, DOWNLOAD_CALLS_PER_MINUTE} : SecondRequest(cpm)
    \/ LookupCheck
    \/ LookupRead
    \/ LookupCompare
    \/ LookupDelete

SpecRace == Init /\ [][NextRace]_vars

\* C16: whatever the interleaving of a lookup with the stores of a worker, the
\* lookup never fails on a missing key, and the entry it removes is an expired
\* one.
C16_LookupExclusive ==
    [][ /\ lookup'.result # "KeyError"
        /\ (lookup.at = "delete" /\ lookup'.at = "done" /\ LookupKey \in DOMAIN video_cache)
              => video_cache[LookupKey].expiry <= now ]_vars

\* the step in which the wrapper of a second request runs, while the first
\* request awaits its worker
SecondCallStep == LookupIdle /\ lookup' # lookup

\* the step in which the wrapper of the request being served runs
FirstCallStep == pc \in {"idle", "done"} /\ now' = now /\ lookup' = lookup

\* C25: whatever way two requests interleave, the wrapper's check and update
\* are one step: a step changes last_request_time only by recording now under
\* one key, and only when the key was absent or its recorded time is at least
\* the minimum interval of the called endpoint ago (2 s for /video/info, 3 s for
\* /video/download); every call that is not denied records its time, and a
\* denied call records nothing.
C25_SpacedAdmissions ==
    [][ LET minInterval ==
                IF SecondCallStep
                THEN (IF lookup'.calls_per_minute = 30 THEN 2 ELSE 3)
                ELSE (IF req'.ep = "info" THEN 2 ELSE 3)
            denied == IF SecondCallStep THEN lookup'.result = "429" ELSE resp'.status = 429
        IN  /\ last_request_time' # last_request_time =>
                  /\ SecondCallStep \/ FirstCallStep
                  /\ \E k \in DOMAIN last_request_time' :
                        /\ last_request_time' = Put(last_request_time, k, now)
                        /\ k \in DOMAIN last_request_time =>
                               now - last_request_time[k] >= minInterval
            /\ (SecondCallStep \/ FirstCallStep) =>
                  IF denied
                  THEN last_request_time' = last_request_time
                  ELSE /\ "unknown" \in DOMAIN last_request_time'
                       /\ last_request_time'["unknown"] = now ]_vars

\* a /video/download call was admitted while an earlier request, admitted
\* exactly 3 s before, still awaits its worker
C25_Witness ==
    /\ pc \in {"extract", "alternative", "attempt"}
    /\ lookup.at = "check"
    /\ lookup.calls_per_minute = 20
    /\ req.time = now - 3
    /\ last_request_time["unknown"] = now
    /\ accepted[OTHER_CALLER] = now
    /\ accepted[CALLER] = req.time

-----------------------------------------------------------------------------
(* One video, asked for under both spellings of its URL, by /video/info and  *)
(* by /video/download with several qualities and formats                     *)

NextShared ==
    \/ Tick
    \/ Jump
    \/ \E form \in ValidForms : VideoInfo(CALLER, [form |-> form, id |-> VIDEO], FALSE)
    \/ \E o \in Outcomes(req.url.id) : ExtractVideoInfo(o) /\ NoLog
    \/ \E o \in Outcomes(req.url.id) : TryAlternativeExtraction(o) /\ NoLog
    \/ \E form \in ValidForms, q \in {"high", "low"}, fmt \in Formats :
           VideoDownload(CALLER, [form |-> form, id |-> VIDEO], q, fmt, FALSE)
    \/ \E o \in Outcomes(req.url.id) : DownloadAttempt(o) /\ NoLog

SpecShared == Init /\ [][NextShared]_vars

\* the cache key of a video identity
IdentityKey(r) == <<[form |-> "watch", id |-> r.url.id], "", "">>

-----------------------------------------------------------------------------
(* /playlist/download called again and again for a playlist of one or two   *)
(* members, so that members are met again while their cache entry lives     *)

NextBatch ==
    \/ Tick
    \/ Jump
    \/ \E listing \in {ListingReturned(<<Entry(1)>>), ListingReturned(<<Entry(1), Entry(2)>>)} :
           PlaylistDownload(CALLER, PlaylistUrl, "high", "mp4", 2, listing)
    \/ PlaylistMember
    \/ \E o \in Outcomes(req.url.id) : DownloadAttempt(o) /\ NoLog

SpecBatch == Init /\ [][NextBatch]_vars

\* the step in which /playlist/download calls the single-video endpoint for its
\* next member
MemberStep == pc = "member" /\ now' = now

\* the entry that the step appends to download_links
Appended == pl'.links[Len(pl'.links)]

\* C23: when /playlist/download calls the single-video endpoint for a member,
\* the rate gate decides, whether or not the cache holds an unexpired entry of
\* the member: within the minimum interval of the last admitted call the member
\* gets a 429 error entry and nothing else changes; otherwise the call is
\* admitted and goes to the upstream worker without reading or changing the
\* cache.  An entry of download_links that carries download info was extracted
\* upstream by its own engine call and is not marked cached.
C23_MembersSkipCache ==
    [][ /\ MemberStep =>
              /\ req'.via = "playlist"
              /\ req'.ep = "download"
              /\ req'.url.id = Selected(pl)[Len(pl.links) + 1].id
              /\ calls' = 0
              /\ video_cache' = video_cache
              /\ IF /\ "unknown" \in DOMAIN last_request_time
                    /\ now - last_request_time["unknown"] < 3
                 THEN /\ Len(pl'.links) = Len(pl.links) + 1
                      /\ IsErrorEntry(Appended)
                      /\ Appended.error.status = 429
                      /\ last_request_time' = last_request_time
                 ELSE /\ pc' = "attempt"
                      /\ pl' = pl
                      /\ last_request_time' = Put(last_request_time, "unknown", now)
        /\ (Len(pl'.links) = Len(pl.links) + 1 /\ ~IsErrorEntry(Appended)) =>
              /\ pc = "attempt"
              /\ calls' >= 1
              /\ ~Appended.download_info.cached ]_vars

\* a member whose cache entry has not expired was admitted and is with the
\* upstream worker, which has made no engine call yet
C23_Witness ==
    /\ pc = "attempt"
    /\ req.via = "playlist"
    /\ calls = 0
    /\ Fresh(video_cache, req, now)
    /\ Get(video_cache[CacheKeyOf(req)].info, "url", None) # None

=============================================================================
